---- MODULE Spec2Model ----
(***************************************************************************)
(* State-machine model of the Taboola Backstage SDK core:                  *)
(*   - OAuthManager (src/src/auth/oauth.ts): cached token, in-flight       *)
(*     marker, getAccessToken / refreshToken / clearToken / fetchToken;    *)
(*   - HttpClient (src/utils/http.ts): ky instance with beforeRequest and  *)
(*     afterResponse hooks, retry configuration and error translation.     *)
(* Line references name the files oauth.ts, http.ts and client.ts.         *)
(* JavaScript runs handlers to their next await without interleaving, so   *)
(* every action below is one such run-to-await segment.                    *)
(***************************************************************************)
EXTENDS Integers, Sequences, FiniteSets, TLC

\* ---------------------------------------------------------------- bounds
NumCallers == 2
MaxFetches == 3
MaxTicks == 2
MaxRetries == 1

\* ------------------------------------------------------- program constants
\* oauth.ts:12
TOKEN_EXPIRY_BUFFER_MS == 5 * 60 * 1000

\* http.ts:16
DEFAULT_RETRIES == 3
\* ky's own default retry limit, which the hook's bare ky(request) runs under
\* (http.ts:65 passes no options).
KyDefaultRetryLimit == 2

\* Clock advances offered to Date.now(), in ms (300 s and 3000 s).
TickSteps == {300 * 1000, 3000 * 1000}
\* expires_in values (seconds) the token endpoint may answer with.
ExpiresInChoices == {300, 3600}

Callers == 1..NumCallers
\* The callers that act while the clock runs (ClockSpec) or while the token
\* endpoint fails in every way (AuthSpec).
ClockCallers == 1..(NumCallers - 1)

VARIABLES
    now,          \* Date.now(), ms
    ticks,        \* number of clock advances so far (bounds the clock)
    storedToken,  \* OAuthManager.storedToken
    tokenPromise, \* OAuthManager.tokenPromise: 0 = null, else the fetch it holds
    fetches,      \* every fetchToken() call started so far: its state
    callers,      \* application code awaiting getAccessToken()/refreshToken()
    orphaned,     \* history: clearToken() was called while a fetch was pending
    lastRefresh,  \* history: the last refreshToken() that dropped a valid token
    clearMark,    \* history (HistorySpec): the last clearToken() and the call after it
    flight,       \* history (HistorySpec): the window a fetching call opened
    options,      \* HttpClientOptions given to the HttpClient constructor
    req,          \* the HttpClient.request() call in progress
    call,         \* a parseApiError(statusCode, response, url) call
    client        \* the TaboolaClient being constructed from a TaboolaConfig

vars == <<now, ticks, storedToken, tokenPromise, fetches, callers,
          orphaned, lastRefresh, clearMark, flight, options, req, call, client>>

managerVars == <<storedToken, tokenPromise, fetches>>
historyVars == <<orphaned, lastRefresh, clearMark, flight>>

\* storedToken === null
NoToken == [accessToken |-> 0, expiresAt |-> 0, fetchedAt |-> 0, expiresIn |-> 0]

\* oauth.ts:131-134. A token string is identified by the fetch that produced it;
\* fetchedAt and expiresIn are kept beside expiresAt as history.
NewToken(f, t, e) ==
    [accessToken |-> f, expiresAt |-> t + e * 1000, fetchedAt |-> t, expiresIn |-> e]

\* Faulty variant of isTokenExpired: the boundary instant still counts as valid.
isTokenExpiredStrict(token, t) == t > token.expiresAt - TOKEN_EXPIRY_BUFFER_MS

\* oauth.ts:73-75
isTokenExpired(token, t) == t >= token.expiresAt - TOKEN_EXPIRY_BUFFER_MS

\* oauth.ts:34  (this.storedToken && !this.isTokenExpired(this.storedToken))
HasValidToken(token, t) == token.accessToken # 0 /\ ~isTokenExpired(token, t)

\* Faulty variant of GetBranch: the in-flight marker is not consulted.
GetBranchNoJoin(token, marker, t) ==
    IF token.accessToken # 0 /\ t < token.expiresAt - TOKEN_EXPIRY_BUFFER_MS
    THEN "cache" ELSE "start"

\* oauth.ts:32-44: which branch a getAccessToken() call takes, given the
\* cached token and the marker it sees.
GetBranch(token, marker, t) ==
    IF HasValidToken(token, t) THEN "cache"
    ELSE IF marker # 0 THEN "join"
    ELSE "start"

IdleCaller ==
    [pc |-> "idle", op |-> "none", how |-> "none", at |-> 0,
     waitOn |-> 0, ok |-> FALSE, value |-> 0,
     error |-> [http |-> FALSE, status |-> 0, kind |-> "none", message |-> "",
                json |-> FALSE]]

NoFlight == [fetch |-> 0, started |-> 0]

NoResult == [kind |-> "none", statusCode |-> 0, message |-> "", value |-> "none"]

\* A JavaScript value as the errors module inspects it: its typeof class
\* ("undefined", "null", "string", "number", "object") with the string or the
\* number it holds; an object is named by str.
Undefined == [type |-> "undefined", str |-> "", num |-> 0]
Null == [type |-> "null", str |-> "", num |-> 0]
Str(s) == [type |-> "string", str |-> s, num |-> 0]
Num(n) == [type |-> "number", str |-> "", num |-> n]
Obj(name) == [type |-> "object", str |-> name, num |-> 0]

\* A response body handed to parseApiError (http.ts:134-146): undefined, null,
\* raw text, or a parsed JSON object with the five properties the errors
\* module reads (Undefined = property absent).
NonObject(v) ==
    [type |-> v.type, str |-> v.str, message |-> Undefined, error |-> Undefined,
     error_description |-> Undefined, errors |-> Undefined, retry_after |-> Undefined]

\* No error object.
NoError ==
    [kind |-> "none", statusCode |-> 0, message |-> "", url |-> "",
     fieldErrors |-> Undefined, retryAfter |-> Undefined]

\* A request() call not yet made. retryCount is ky's _retryCount of the
\* instance, reissueRetry the _retryCount of the hook's ky(request); the
\* fields from sent on are history of this one request() call: transient
\* counts the responses with a status in {408, 429, 500, 502, 503, 504}, clean
\* says that every attempt so far got such a response or a 2xx one, same is the
\* status every response so far had (0 = no response yet, -1 = they differ or an
\* attempt got no response), final is the response request() was resolved with
\* (status 0 = none), tokenError is the error of the first getAccessToken()
\* call of the beforeRequest hook that failed (kind "none" = none failed),
\* captured the HTTPError of the running attempt or of its reissue, rejected
\* the error the ky call rejected with; error is the TaboolaError request()
\* built with parseApiError (kind "none" = it built none), url the URL the
\* last attempt was sent to.
IdleReq ==
    [pc |-> "idle", method |-> "get", retryCount |-> 0, reissueRetry |-> 0,
     waitOn |-> 0, bearer |-> 0, result |-> NoResult,
     sent |-> 0, refreshes |-> 0, reissues |-> 0,
     refreshFailed |-> FALSE, sentAfterRefreshFail |-> FALSE, reissueFailed |-> 0,
     transient |-> 0, clean |-> TRUE, same |-> 0, sentAfterRecovery |-> FALSE,
     tokenError |-> IdleCaller.error, sentAfterTokenFail |-> FALSE,
     error |-> NoError, rejected |-> IdleCaller.error, captured |-> IdleCaller.error,
     url |-> "",
     final |-> [status |-> 0, contentType |-> [present |-> FALSE, value |-> <<>>],
                json |-> FALSE]]

\* No call of the errors module made. For a parseApiError call the record
\* holds its three arguments; for a constructor call, the class, the message
\* argument and the statusCode option (0 = not given).
NoCall ==
    [pc |-> "none", statusCode |-> 0, response |-> NonObject(Undefined),
     url |-> "", result |-> NoError, class |-> "", message |-> Undefined]

\* No TaboolaClient: the OAuthManager and the HttpClient are used directly.
NoClient ==
    [pc |-> "none", via |-> "none", clientId |-> "", clientSecret |-> "",
     retries |-> <<>>, baseUrl |-> <<>>, error |-> "", authManager |-> FALSE,
     httpClient |-> FALSE, got |-> ""]

InitManager ==
    /\ now = 0
    /\ ticks = 0
    /\ storedToken = NoToken
    /\ tokenPromise = 0
    /\ fetches = <<>>
    /\ callers = [p \in Callers |-> IdleCaller]
    /\ orphaned = FALSE
    /\ lastRefresh = [who |-> 0, dropped |-> 0]
    /\ clearMark = [armed |-> FALSE, mark |-> 0, next |-> 0]
    /\ flight = NoFlight
    /\ req = IdleReq

\* An OAuthManager used directly, beside a client left with default options.
Init ==
    /\ InitManager
    /\ options = [retries |-> <<>>, baseUrl |-> <<>>]
    /\ call = NoCall
    /\ client = NoClient

Pending == {f \in 1..Len(fetches) : fetches[f] = "pending"}

\* Faulty variant of TokenSeenByRefresh: refreshToken() forgets to drop the cache.
TokenKeptByRefresh(token) == token

\* oauth.ts:58: the cached token getAccessToken() sees when refreshToken()
\* calls it (storedToken was just set to null).
TokenSeenByRefresh(token) == NoToken

\* What the token endpoint can answer to the POST of oauth.ts:88-97 when the
\* fetch does not yield a token: nothing at all (fetch() throws), a non-2xx
\* status, or a 2xx status whose body is not JSON or is JSON without
\* access_token. body is "json" or "text".
Unreachable == [reached |-> FALSE, status |-> 0, body |-> "none"]
TokenAnswer(status, body) == [reached |-> TRUE, status |-> status, body |-> body]
TokenFailures ==
    {Unreachable, TokenAnswer(403, "json"), TokenAnswer(500, "json"),
     TokenAnswer(500, "text"), TokenAnswer(200, "text"), TokenAnswer(200, "json")}

\* No error.
NoFailure == IdleCaller.error

\* errors module, TaboolaAuthError: new TaboolaAuthError(message) has statusCode 401.
TaboolaAuthError(message) ==
    [http |-> FALSE, status |-> 401, kind |-> "TaboolaAuthError", message |-> message,
     json |-> FALSE]

\* Faulty variant of FetchTokenError: the text() fallback of the non-2xx branch
\* is taken to succeed, so every failure is a TaboolaAuthError.
FetchTokenErrorAlwaysAuth(cause) ==
    IF ~cause.reached
    THEN TaboolaAuthError("Failed to connect to authentication server")
    ELSE IF cause.status \notin 200..299
         THEN TaboolaAuthError("Authentication failed: <status> <statusText>")
         ELSE IF cause.body = "text"
              THEN TaboolaAuthError("Invalid token response from server")
              ELSE TaboolaAuthError("No access token in response")

\* oauth.ts:88-128: the error fetchToken() rejects with. In the non-2xx branch
\* (103-115) response.json() consumes the body; when it throws, the catch
\* calls response.text() on the consumed body, which throws a TypeError that
\* nothing catches (status 0 stands for an error without statusCode).
FetchTokenError(cause) ==
    IF ~cause.reached
    THEN TaboolaAuthError("Failed to connect to authentication server")
    ELSE IF cause.status \notin 200..299
         THEN IF cause.body = "json"
              THEN TaboolaAuthError("Authentication failed: <status> <statusText>")
              ELSE [http |-> FALSE, status |-> 0, kind |-> "TypeError",
                    message |-> "Body is unusable", json |-> FALSE]
         ELSE IF cause.body = "text"
              THEN TaboolaAuthError("Invalid token response from server")
              ELSE TaboolaAuthError("No access token in response")

\* Faulty variant of Settled: a joining caller swallows the rejection and resolves
\* with an empty token.
SettledJoinerSwallows(c, f, fstate, cause) ==
    IF c.how = "join" /\ fstate = "failed"
    THEN [c EXCEPT !.pc = "done", !.ok = TRUE, !.value = 0]
    ELSE [c EXCEPT !.pc = "done", !.ok = (fstate = "ok"), !.value = f,
                   !.error = IF fstate = "ok" THEN NoFailure
                             ELSE FetchTokenError(cause)]

\* Faulty variant of Settled: a joining caller waits on the marker, not on the
\* promise it was handed, and is left waiting when the marker no longer names
\* the fetch that settles.
SettledWhileMarked(c, f, fstate, cause) ==
    IF c.how = "join" /\ tokenPromise # f
    THEN c
    ELSE [c EXCEPT !.pc = "done", !.ok = (fstate = "ok"), !.value = f,
                   !.error = IF fstate = "ok" THEN NoFailure
                             ELSE FetchTokenError(cause)]

\* What a caller holds once the promise it awaits or returns has settled:
\* oauth.ts:40 (return this.tokenPromise) and oauth.ts:47-48 (await it and
\* return its value) both hand over the outcome of that one fetchToken() call.
Settled(c, f, fstate, cause) ==
    [c EXCEPT !.pc = "done", !.ok = (fstate = "ok"), !.value = f,
              !.error = IF fstate = "ok" THEN NoFailure ELSE FetchTokenError(cause)]

\* Faulty variant of MarkerAfterSettle: the marker is cleared on success only
\* (try/then instead of try/finally).
MarkerClearedOnSuccessOnly(marker, f, fstate) ==
    IF fstate = "ok" THEN 0 ELSE marker

\* oauth.ts:49-51: the finally block of the call that started fetch f runs
\* when f settles and assigns null, whatever the marker holds by then.
MarkerAfterSettle(marker, f, fstate) == 0

\* Faulty variant of ManagerAfterCall: the cache is left as it was, so the
\* null assignment of refreshToken() is lost.
ManagerAfterCallKeepsCache(token, branch) ==
    /\ storedToken' = storedToken
    /\ IF branch = "start"
       THEN /\ Len(fetches) < MaxFetches
            /\ fetches' = Append(fetches, "pending")
            /\ tokenPromise' = Len(fetches) + 1
       ELSE UNCHANGED <<fetches, tokenPromise>>

\* oauth.ts:32-52 up to the first await, for a call that sees cached token
\* `token`: the manager's fields after it.
ManagerAfterCall(token, branch) ==
    /\ storedToken' = token
    /\ IF branch = "start"
       THEN /\ Len(fetches) < MaxFetches
            /\ fetches' = Append(fetches, "pending")
            /\ tokenPromise' = Len(fetches) + 1
       ELSE UNCHANGED <<fetches, tokenPromise>>

\* The caller's state after the same code.
CallerAfterCall(op, token, branch) ==
    LET base == [IdleCaller EXCEPT !.op = op, !.how = branch, !.at = now]
    IN CASE branch = "cache" ->
              [base EXCEPT !.pc = "done", !.ok = TRUE, !.value = token.accessToken]
         [] branch = "join" ->
              IF fetches[tokenPromise] = "pending"
              THEN [base EXCEPT !.pc = "waiting", !.waitOn = tokenPromise]
              ELSE Settled([base EXCEPT !.waitOn = tokenPromise],
                           tokenPromise, fetches[tokenPromise], Unreachable)
         [] OTHER ->
              [base EXCEPT !.pc = "waiting", !.waitOn = Len(fetches) + 1]

\* History only (kept when track is TRUE): the window a fetching call opens
\* with the number of fetches started in it, and the first call after a clear.
HistoryAfterCall(p, branch, track) ==
    IF ~track THEN UNCHANGED <<clearMark, flight>>
    ELSE /\ flight' = IF branch # "start" THEN flight
                      ELSE IF flight.fetch = 0
                           THEN [fetch |-> Len(fetches) + 1, started |-> 1]
                           ELSE [flight EXCEPT !.started = @ + 1]
         /\ clearMark' = IF clearMark.armed
                         THEN [clearMark EXCEPT !.armed = FALSE, !.next = p]
                         ELSE IF clearMark.next = p
                              THEN [clearMark EXCEPT !.next = 0]
                              ELSE clearMark

\* oauth.ts:32-52, called by application code.
GetAccessToken(p, track) ==
    /\ callers[p].pc \in {"idle", "done"}
    /\ LET branch == GetBranch(storedToken, tokenPromise, now)
       IN /\ ManagerAfterCall(storedToken, branch)
          /\ callers' = [callers EXCEPT ![p] = CallerAfterCall("get", storedToken, branch)]
          /\ HistoryAfterCall(p, branch, track)
    /\ lastRefresh' = IF lastRefresh.who = p THEN [who |-> 0, dropped |-> 0]
                      ELSE lastRefresh
    /\ UNCHANGED <<now, ticks, orphaned, options, req, call, client>>

\* oauth.ts:57-60 (client.ts:172-174 forwards to it).
RefreshToken(p, track) ==
    /\ callers[p].pc \in {"idle", "done"}
    /\ LET seen == TokenSeenByRefresh(storedToken)
           branch == GetBranch(seen, tokenPromise, now)
       IN /\ ManagerAfterCall(seen, branch)
          /\ callers' = [callers EXCEPT ![p] = CallerAfterCall("refresh", seen, branch)]
          /\ HistoryAfterCall(p, branch, track)
    /\ lastRefresh' = IF HasValidToken(storedToken, now)
                      THEN [who |-> p, dropped |-> storedToken.accessToken]
                      ELSE IF lastRefresh.who = p THEN [who |-> 0, dropped |-> 0]
                      ELSE lastRefresh
    /\ UNCHANGED <<now, ticks, orphaned, options, req, call, client>>

\* oauth.ts:65-68 (client.ts:181-183 forwards to it).
ClearToken(track) ==
    /\ storedToken' = NoToken
    /\ tokenPromise' = 0
    /\ orphaned' = (orphaned \/ Pending # {})
    /\ IF track
       THEN /\ clearMark' = [armed |-> TRUE, mark |-> Len(fetches), next |-> 0]
            /\ flight' = NoFlight
       ELSE UNCHANGED <<clearMark, flight>>
    /\ UNCHANGED <<now, ticks, fetches, callers, lastRefresh, options, req, call, client>>

\* ------------------------------------------------------------ HttpClient

\* Statuses the resource API answers with.
Statuses == {200, 204, 401, 403, 429, 503}

\* A content-type header as response.headers.get() returns it (http.ts:125):
\* null (present = FALSE) or a string, kept as the sequence of its fragments.
NoHeader == [present |-> FALSE, value |-> <<>>]
Header(fragments) == [present |-> TRUE, value |-> fragments]
ContentTypes ==
    {NoHeader,
     Header(<<"application/json">>),
     Header(<<"application/json", "; charset=utf-8">>),
     Header(<<"text/plain">>),
     Header(<<"Application/JSON">>)}

\* String.prototype.includes over fragments: needle occurs in hay.
Includes(hay, needle) ==
    \E i \in 1..(Len(hay) - Len(needle) + 1) :
        SubSeq(hay, i, i + Len(needle) - 1) = needle

\* A response of the resource API: its status, its content-type header and
\* whether its body is well-formed JSON.
Responses == [status : Statuses, contentType : ContentTypes, json : BOOLEAN]
\* HTTP verbs of the requests made (http.ts:81-111).
Methods == {"get", "post"}

\* http.ts:43
RetryStatusCodes == {408, 429, 500, 502, 503, 504}
\* ky's defaults, in force for the hook's ky(request) (http.ts:65).
KyDefaultRetryMethods == {"get", "put", "head", "delete", "options", "trace"}
KyDefaultRetryStatusCodes == {408, 413, 429, 500, 502, 503, 504}

\* http.ts:41  (options.retries ?? DEFAULT_RETRIES)
RetryLimit(opts) ==
    IF opts.retries = <<>> THEN DEFAULT_RETRIES ELSE opts.retries[1]

\* parseApiError (errors module): the class chosen for a status code.
ErrorKindOf(statusCode) ==
    CASE statusCode = 400 -> "TaboolaValidationError"
      [] statusCode = 401 -> "TaboolaAuthError"
      [] statusCode = 403 -> "TaboolaForbiddenError"
      [] statusCode = 404 -> "TaboolaNotFoundError"
      [] statusCode = 429 -> "TaboolaRateLimitError"
      [] OTHER -> IF statusCode >= 500 THEN "TaboolaServerError" ELSE "TaboolaError"

\* Faulty variant of extractErrorMessage: body.error is preferred to body.message.
extractErrorMessageErrorFirst(response) ==
    IF response.type = "object"
    THEN IF response.error.type = "string" THEN response.error.str
         ELSE IF response.message.type = "string" THEN response.message.str
         ELSE IF response.error_description.type = "string"
              THEN response.error_description.str
         ELSE "Unknown error"
    ELSE "Unknown error"

\* errors module, extractErrorMessage
extractErrorMessage(response) ==
    IF response.type = "object"
    THEN IF response.message.type = "string" THEN response.message.str
         ELSE IF response.error.type = "string" THEN response.error.str
         ELSE IF response.error_description.type = "string"
              THEN response.error_description.str
         ELSE "Unknown error"
    ELSE "Unknown error"

\* Faulty variant of extractFieldErrors: the property read is `error`.
extractFieldErrorsWrongKey(response) ==
    IF response.type = "object" /\ response.error.type = "object"
    THEN response.error ELSE Undefined

\* errors module, extractFieldErrors
extractFieldErrors(response) ==
    IF response.type = "object" /\ response.errors.type = "object"
    THEN response.errors ELSE Undefined

\* Faulty variant of extractRetryAfter: any retry_after that is present is taken.
extractRetryAfterUntyped(response) ==
    IF response.type = "object" /\ response.retry_after.type # "undefined"
    THEN response.retry_after ELSE Undefined

\* errors module, extractRetryAfter
extractRetryAfter(response) ==
    IF response.type = "object" /\ response.retry_after.type = "number"
    THEN response.retry_after ELSE Undefined

\* Faulty variant of ConstructedStatus: TaboolaServerError keeps its default 500.
ConstructedStatusDefault500(kind, statusCode) ==
    CASE kind = "TaboolaValidationError" -> 400
      [] kind = "TaboolaAuthError" -> 401
      [] kind = "TaboolaForbiddenError" -> 403
      [] kind = "TaboolaNotFoundError" -> 404
      [] kind = "TaboolaRateLimitError" -> 429
      [] kind = "TaboolaServerError" -> 500
      [] OTHER -> statusCode

\* errors module, the constructors: the statusCode an error of this class
\* gets when parseApiError passes it statusCode where the class takes one.
ConstructedStatus(kind, statusCode) ==
    CASE kind = "TaboolaValidationError" -> 400
      [] kind = "TaboolaAuthError" -> 401
      [] kind = "TaboolaForbiddenError" -> 403
      [] kind = "TaboolaNotFoundError" -> 404
      [] kind = "TaboolaRateLimitError" -> 429
      [] OTHER -> statusCode

\* errors module, the default values of the constructors' message parameter;
\* the base class has none.
DefaultMessage(class) ==
    CASE class = "TaboolaAuthError" -> "Authentication failed"
      [] class = "TaboolaValidationError" -> "Validation failed"
      [] class = "TaboolaNotFoundError" -> "Resource not found"
      [] class = "TaboolaRateLimitError" -> "Rate limit exceeded"
      [] class = "TaboolaForbiddenError" -> "Access forbidden"
      [] class = "TaboolaServerError" -> "Server error"
      [] OTHER -> ""

\* Faulty variant of ConstructedMessage: a class that has a default message
\* always uses it.
ConstructedMessageDefaultWins(class, message) ==
    IF DefaultMessage(class) # "" THEN DefaultMessage(class)
    ELSE IF message.type = "undefined" THEN "" ELSE message.str

\* errors module, the constructors: a parameter default applies when the
\* argument is undefined, and only then.
ConstructedMessage(class, message) ==
    IF message.type = "undefined" THEN DefaultMessage(class) ELSE message.str

\* errors module, the constructors called directly: the statusCode of the
\* new error, given the statusCode option (0 = not given; 0 in the result =
\* undefined). Only TaboolaServerError and the base class take the option.
NewStatus(class, statusCode) ==
    CASE class = "TaboolaValidationError" -> 400
      [] class = "TaboolaAuthError" -> 401
      [] class = "TaboolaForbiddenError" -> 403
      [] class = "TaboolaNotFoundError" -> 404
      [] class = "TaboolaRateLimitError" -> 429
      [] class = "TaboolaServerError" -> IF statusCode = 0 THEN 500 ELSE statusCode
      [] OTHER -> statusCode

\* errors module, `new <class>(message, {statusCode})`
NewError(class, message, statusCode) ==
    [kind |-> class, statusCode |-> NewStatus(class, statusCode),
     message |-> ConstructedMessage(class, message), url |-> "",
     fieldErrors |-> Undefined, retryAfter |-> Undefined]

\* errors module, parseApiError(statusCode, response, url)
parseApiError(statusCode, response, url) ==
    LET kind == ErrorKindOf(statusCode)
    IN [kind |-> kind,
        statusCode |-> ConstructedStatus(kind, statusCode),
        message |-> ConstructedMessage(kind, Str(extractErrorMessage(response))),
        url |-> url,
        fieldErrors |-> IF statusCode = 400 THEN extractFieldErrors(response)
                        ELSE Undefined,
        retryAfter |-> IF statusCode = 429 THEN extractRetryAfter(response)
                       ELSE Undefined]

\* Status codes parseApiError is called with.
StatusInputs ==
    {0, 200, 302, 400, 401, 403, 404, 418, 429, 499, 500, 502, 503, 599, 600}

\* Response bodies parseApiError is called with: undefined, null, raw text,
\* and objects whose properties are absent or hold values of several types.
Bodies ==
    {NonObject(Undefined), NonObject(Null), NonObject(Str("Bad Gateway"))}
    \cup [type : {"object"}, str : {""},
          message : {Undefined, Str("A"), Num(7)},
          error : {Undefined, Str("B"), Obj("detail")},
          error_description : {Undefined, Str("C")},
          errors : {Undefined, Null, Str("bad"), Obj("fields")},
          retry_after : {Undefined, Num(0), Num(30), Str("30")}]

\* The error classes of the errors module.
ErrorClasses ==
    {"TaboolaError", "TaboolaAuthError", "TaboolaValidationError",
     "TaboolaNotFoundError", "TaboolaRateLimitError", "TaboolaForbiddenError",
     "TaboolaServerError"}

\* Direct constructions: every class with and without a message (the base
\* class requires one), the two classes that take a statusCode option with
\* and without it.
ConstructorCalls ==
    {c \in [pc : {"new"}, statusCode : {0, 502, 503},
            response : {NonObject(Undefined)}, url : {""}, result : {NoError},
            class : ErrorClasses, message : {Undefined, Str("Custom"), Str("")}] :
        /\ c.statusCode # 0 => c.class \in {"TaboolaError", "TaboolaServerError"}
        /\ c.class = "TaboolaError" => c.message.type = "string"}

\* A caller is about to call parseApiError, or a constructor, with any of
\* these arguments.
InitParse ==
    /\ InitManager
    /\ options = [retries |-> <<>>, baseUrl |-> <<>>]
    /\ client = NoClient
    /\ call \in [pc : {"args"}, statusCode : StatusInputs, response : Bodies,
                 url : {"https://backstage.taboola.com/backstage/api/1.0/x"},
                 result : {NoError}, class : {""}, message : {Undefined}]
                \cup ConstructorCalls

\* errors module, parseApiError: the call returns the error it built.
ParseApiError ==
    /\ call.pc = "args"
    /\ call' = [call EXCEPT !.pc = "returned",
                            !.result = parseApiError(call.statusCode, call.response,
                                                     call.url)]
    /\ UNCHANGED <<now, ticks, managerVars, callers, historyVars, options, req, client>>

\* errors module, lines 148-299: a constructor call returns the new error.
NewTaboolaError ==
    /\ call.pc = "new"
    /\ call' = [call EXCEPT !.pc = "constructed",
                            !.result = NewError(call.class, call.message,
                                                call.statusCode)]
    /\ UNCHANGED <<now, ticks, managerVars, callers, historyVars, options, req, client>>

NextParse ==
    \/ ParseApiError
    \/ NewTaboolaError

ParseSpec == InitParse /\ [][NextParse]_vars

\* An error in flight inside ky: an HTTPError carrying the response (its status
\* and whether its body parses as JSON), or any other error (http = FALSE)
\* with its class and message.
HttpError(resp) ==
    [http |-> TRUE, status |-> resp.status, kind |-> "HTTPError", message |-> "",
     json |-> resp.json]
\* http.ts:67
TokenRefreshFailed == TaboolaAuthError("Token refresh failed")

\* http.ts:10
DEFAULT_BASE_URL == "https://backstage.taboola.com/backstage/api/1.0"

\* A baseUrl override an application configures.
StagingBaseUrl == "https://staging.example/backstage/api/1.0"

\* http.ts:38  (prefixUrl: options.baseUrl ?? DEFAULT_BASE_URL)
PrefixUrl(opts) == IF opts.baseUrl = <<>> THEN DEFAULT_BASE_URL ELSE opts.baseUrl[1]

\* The URL ky sends a request for path "x" to, prefixUrl + "/" + path; it is
\* error.request.url at http.ts:133.
RequestUrl(opts) ==
    IF PrefixUrl(opts) = DEFAULT_BASE_URL
    THEN "https://backstage.taboola.com/backstage/api/1.0/x"
    ELSE "https://staging.example/backstage/api/1.0/x"

\* The body of an error response that parses as JSON.
JsonBody ==
    [type |-> "object", str |-> "", message |-> Str("A"), error |-> Str("B"),
     error_description |-> Undefined, errors |-> Undefined, retry_after |-> Num(30)]

\* http.ts:134-144: the body request() reads from error.response. json()
\* consumes the body; when parsing fails, text() finds the body used and
\* throws, and the innermost catch leaves null.
ResponseBody(err) == IF err.json THEN JsonBody ELSE NonObject(Null)

\* http.ts:131-146: the TaboolaError request() builds for an HTTPError; none
\* for any other error.
Translated(err) ==
    IF err.http THEN parseApiError(err.status, ResponseBody(err), RequestUrl(options))
    ELSE NoError

\* http.ts:131-150: what request() rejects with for an error ky throws.
Surfaced(err) ==
    IF err.http
    THEN [kind |-> Translated(err).kind, statusCode |-> Translated(err).statusCode,
          message |-> Translated(err).message, value |-> "none"]
    ELSE [kind |-> err.kind, statusCode |-> err.status, message |-> err.message,
          value |-> "none"]

\* http.ts:131-150: request() ends in its catch block with the error ky threw.
RequestCatch(r, err) ==
    [r EXCEPT !.pc = "done", !.result = Surfaced(err), !.error = Translated(err),
              !.rejected = err]

\* History: ky or the hook's ky(request) has thrown this HTTPError.
Captured(r, err) == [r EXCEPT !.captured = err]

\* History: the response of an attempt has come in with this status.
Observed(r, status) ==
    [r EXCEPT !.transient = IF status \in {408, 429, 500, 502, 503, 504}
                            THEN @ + 1 ELSE @,
              !.clean = (@ /\ status \in {408, 429, 500, 502, 503, 504} \cup (200..299)),
              !.same = IF @ \in {0, status} THEN status ELSE -1]

\* History: an attempt ended without a response.
NoResponse(r) == [r EXCEPT !.clean = FALSE, !.same = -1]

\* History: getAccessToken() failed in the beforeRequest hook with this error.
TokenFailed(r, err) ==
    [r EXCEPT !.tokenError = IF @.kind = "none" THEN err ELSE @]

\* http.ts:125-126  (contentType?.includes('application/json'))
IncludesJson(contentType) ==
    contentType.present /\ Includes(contentType.value, <<"application/json">>)

\* Faulty variant of Resolved: the body is parsed whatever the content type.
ResolvedAlwaysParsed(r, resp) ==
    [r EXCEPT !.pc = "done", !.final = resp,
              !.result = IF resp.json
                         THEN [kind |-> "ok", statusCode |-> resp.status,
                               message |-> "", value |-> "json"]
                         ELSE [kind |-> "SyntaxError", statusCode |-> 0,
                               message |-> "", value |-> "none"]]

\* http.ts:122-130 and 149: request() on the response ky resolved with. A
\* body that is not JSON makes response.json() throw a SyntaxError, which the
\* catch rethrows as it is.
Resolved(r, resp) ==
    [r EXCEPT !.pc = "done", !.final = resp,
              !.result = IF ~IncludesJson(resp.contentType)
                         THEN [kind |-> "ok", statusCode |-> resp.status,
                               message |-> "", value |-> "undefined"]
                         ELSE IF resp.json
                              THEN [kind |-> "ok", statusCode |-> resp.status,
                                    message |-> "", value |-> "json"]
                              ELSE [kind |-> "SyntaxError", statusCode |-> 0,
                                    message |-> "", value |-> "none"]]

\* Faulty variant of AfterThrow: the last permitted retry is not made.
AfterThrowOneShort(r, err) ==
    LET n == r.retryCount + 1
    IN IF \/ n >= RetryLimit(options)
          \/ err.kind = "TimeoutError"
          \/ (err.http /\ err.status \notin RetryStatusCodes)
       THEN [RequestCatch(r, err) EXCEPT !.retryCount = n, !.waitOn = 0]
       ELSE [r EXCEPT !.pc = "backoff", !.retryCount = n, !.waitOn = 0]

\* Faulty variant of AfterThrow: one retry more than the limit is made.
AfterThrowOneMore(r, err) ==
    LET n == r.retryCount + 1
    IN IF \/ n > RetryLimit(options) + 1
          \/ err.kind = "TimeoutError"
          \/ (err.http /\ err.status \notin RetryStatusCodes)
       THEN [RequestCatch(r, err) EXCEPT !.retryCount = n, !.waitOn = 0]
       ELSE [r EXCEPT !.pc = "backoff", !.retryCount = n, !.waitOn = 0]

\* ky's retry loop around one attempt (beforeRequest hooks, fetch,
\* afterResponse hooks, HTTPError for a non-2xx response), configured at
\* http.ts:40-45: an error thrown by the attempt is counted; past the limit,
\* for a TimeoutError (ky never retries a timed-out attempt), or for an
\* HTTPError whose status is not in statusCodes, it is rethrown and request()
\* surfaces it; any other error is retried after the backoff delay.
AfterThrow(r, err) ==
    LET n == r.retryCount + 1
    IN IF \/ n > RetryLimit(options)
          \/ err.kind = "TimeoutError"
          \/ (err.http /\ err.status \notin RetryStatusCodes)
       THEN [RequestCatch(r, err) EXCEPT !.retryCount = n, !.waitOn = 0]
       ELSE [r EXCEPT !.pc = "backoff", !.retryCount = n, !.waitOn = 0]

\* http.ts:50-51: the token is attached and the attempt is dispatched.
Dispatched(r, token) ==
    [r EXCEPT !.pc = "sent", !.waitOn = 0, !.bearer = token, !.sent = @ + 1,
              !.sentAfterRefreshFail = (@ \/ r.refreshFailed),
              !.sentAfterRecovery = (@ \/ r.refreshes > 0),
              !.sentAfterTokenFail = (@ \/ r.tokenError.kind # "none"),
              !.captured = IdleCaller.error, !.url = RequestUrl(options),
              !.reissueFailed = 0]

\* http.ts:64-65: the new token is attached and ky(request) dispatches it.
Reissued(r, token) ==
    [r EXCEPT !.pc = "reissued", !.waitOn = 0, !.bearer = token,
              !.reissues = @ + 1, !.reissueRetry = 0]

\* http.ts:66-68: the catch around refreshToken() and ky(request).
HookCatch(r, err) == AfterThrow(r, TokenRefreshFailed)

\* The request's continuation when the token fetch it awaits settles:
\* in the beforeRequest hook (http.ts:49-51) or in the afterResponse hook
\* (http.ts:63-68).
ReqAfterSettle(r, f, fstate, cause) ==
    IF r.waitOn # f \/ r.pc \notin {"token", "refresh"} THEN r
    ELSE IF r.pc = "token"
         THEN IF fstate = "ok" THEN Dispatched(r, f)
              ELSE AfterThrow(TokenFailed(NoResponse(r), FetchTokenError(cause)),
                                   FetchTokenError(cause))
         ELSE IF fstate = "ok" THEN Reissued(r, f)
              ELSE HookCatch([r EXCEPT !.refreshFailed = TRUE],
                                  FetchTokenError(cause))

\* oauth.ts:80-137 from the resumption after `await fetch(...)` to the
\* settlement of the promise, followed by the starter's finally block
\* (oauth.ts:49-51) and the resumption of everyone awaiting the promise.
FetchSettles(f, fstate, e, cause) ==
    /\ f \in Pending
    /\ fetches' = [fetches EXCEPT ![f] = fstate]
    /\ storedToken' = IF fstate = "ok" THEN NewToken(f, now, e) ELSE storedToken
    /\ tokenPromise' = MarkerAfterSettle(tokenPromise, f, fstate)
    /\ callers' = [p \in Callers |->
                     IF callers[p].pc = "waiting" /\ callers[p].waitOn = f
                     THEN Settled(callers[p], f, fstate, cause)
                     ELSE callers[p]]
    /\ req' = ReqAfterSettle(req, f, fstate, cause)
    /\ flight' = IF flight.fetch = f THEN NoFlight ELSE flight
    /\ UNCHANGED <<now, ticks, orphaned, lastRefresh, clearMark, options, call, client>>

\* oauth.ts:130-136: the token endpoint answered 2xx with an access_token.
FetchSucceeds ==
    \E f \in Pending : \E e \in ExpiresInChoices : FetchSettles(f, "ok", e, Unreachable)

\* oauth.ts:88-101: the token endpoint cannot be reached and fetchToken() throws
\* from its first throw site.
FetchFails ==
    \E f \in Pending : FetchSettles(f, "failed", 0, Unreachable)

\* oauth.ts:88-128: fetchToken() throws, from any of its throw sites.
FetchFailsWith ==
    \E f \in Pending : \E cause \in TokenFailures : FetchSettles(f, "failed", 0, cause)

\* Date.now() moves on between handlers.
Tick ==
    /\ ticks < MaxTicks
    /\ ticks' = ticks + 1
    /\ \E d \in TickSteps : now' = now + d
    /\ UNCHANGED <<storedToken, tokenPromise, fetches, callers,
                   orphaned, lastRefresh, clearMark, flight, options, req, call, client>>

\* The token manager under concurrent callers, at one instant of the clock.
Next ==
    \/ \E p \in Callers : GetAccessToken(p, FALSE)
    \/ \E p \in Callers : RefreshToken(p, FALSE)
    \/ ClearToken(FALSE)
    \/ FetchSucceeds
    \/ FetchFails

Spec == Init /\ [][Next]_vars

\* The same, with the history of clears and single-flight windows recorded.
NextHistory ==
    \/ \E p \in Callers : GetAccessToken(p, TRUE)
    \/ \E p \in Callers : RefreshToken(p, TRUE)
    \/ ClearToken(TRUE)
    \/ FetchSucceeds
    \/ FetchFails

HistorySpec == Init /\ [][NextHistory]_vars

\* The token manager under concurrent callers, the token endpoint failing in
\* every way it can.
NextAuth ==
    \/ \E p \in ClockCallers : GetAccessToken(p, FALSE)
    \/ \E p \in ClockCallers : RefreshToken(p, FALSE)
    \/ ClearToken(FALSE)
    \/ FetchSucceeds
    \/ FetchFailsWith

AuthSpec == Init /\ [][NextAuth]_vars

\* A started token fetch settles: the token endpoint answers, or fetch() throws.
SettleFetch(f) ==
    \/ \E e \in ExpiresInChoices : FetchSettles(f, "ok", e, Unreachable)
    \/ \E cause \in TokenFailures : FetchSettles(f, "failed", 0, cause)

\* The token manager under concurrent callers, every started fetch settling
\* in the end.
NextLive ==
    \/ \E p \in Callers : GetAccessToken(p, FALSE)
    \/ \E p \in Callers : RefreshToken(p, FALSE)
    \/ ClearToken(FALSE)
    \/ \E f \in 1..MaxFetches : SettleFetch(f)

LiveSpec ==
    /\ Init
    /\ [][NextLive]_vars
    /\ \A f \in 1..MaxFetches : WF_vars(SettleFetch(f))

\* The token manager while the clock runs.
NextClock ==
    \/ \E p \in ClockCallers : GetAccessToken(p, FALSE)
    \/ \E p \in ClockCallers : RefreshToken(p, FALSE)
    \/ ClearToken(FALSE)
    \/ FetchSucceeds
    \/ FetchFails
    \/ Tick

ClockSpec == Init /\ [][NextClock]_vars

\* http.ts:47-53: one attempt begins with the beforeRequest hook, which calls
\* getAccessToken() and dispatches at once on a cache hit.
BeginAttempt(r) ==
    LET branch == GetBranch(storedToken, tokenPromise, now)
    IN /\ ManagerAfterCall(storedToken, branch)
       /\ req' = CASE branch = "cache" -> Dispatched(r, storedToken.accessToken)
                   [] branch = "join" ->
                        IF fetches[tokenPromise] = "pending"
                        THEN [r EXCEPT !.pc = "token", !.waitOn = tokenPromise]
                        ELSE ReqAfterSettle([r EXCEPT !.pc = "token",
                                                      !.waitOn = tokenPromise],
                                            tokenPromise, fetches[tokenPromise],
                                            Unreachable)
                   [] OTHER -> [r EXCEPT !.pc = "token", !.waitOn = Len(fetches) + 1]

\* http.ts:116-122: request() hands the call to the ky instance.
HttpRequest(m) ==
    /\ req.pc \in {"idle", "done"}
    /\ BeginAttempt([IdleReq EXCEPT !.method = m])
    /\ UNCHANGED <<now, ticks, callers, historyVars, options, call, client>>

\* http.ts:54-73: the afterResponse hook on the response of an attempt, then
\* ky's own check of response.ok.
HttpResponds(resp) ==
    /\ req.pc = "sent"
    /\ IF resp.status = 401
       THEN LET seen == TokenSeenByRefresh(storedToken)
                branch == GetBranch(seen, tokenPromise, now)
                r == [Observed(req, 401) EXCEPT !.refreshes = @ + 1]
            IN /\ ManagerAfterCall(seen, branch)
               /\ req' = CASE branch = "cache" -> Reissued(r, seen.accessToken)
                           [] branch = "join" ->
                                IF fetches[tokenPromise] = "pending"
                                THEN [r EXCEPT !.pc = "refresh", !.waitOn = tokenPromise]
                                ELSE ReqAfterSettle([r EXCEPT !.pc = "refresh",
                                                              !.waitOn = tokenPromise],
                                                    tokenPromise, fetches[tokenPromise],
                                            Unreachable)
                           [] OTHER ->
                                [r EXCEPT !.pc = "refresh", !.waitOn = Len(fetches) + 1]
       ELSE /\ req' = IF resp.status \in 200..299
                      THEN Resolved(Observed(req, resp.status), resp)
                      ELSE AfterThrow(Captured(Observed(req, resp.status),
                                               HttpError(resp)),
                                      HttpError(resp))
            /\ UNCHANGED managerVars
    /\ UNCHANGED <<now, ticks, callers, historyVars, options, call, client>>

\* http.ts:65-68: the response to the hook's ky(request). A 2xx response is
\* returned by the hook and becomes the attempt's response; an HTTPError, once
\* ky's default retries of the reissue are used up, lands in the hook's catch.
ReissueResponds(resp) ==
    /\ req.pc = "reissued"
    /\ req' = IF resp.status \in 200..299
              THEN Resolved(req, resp)
              ELSE IF /\ req.method \in KyDefaultRetryMethods
                      /\ resp.status \in KyDefaultRetryStatusCodes
                      /\ req.reissueRetry + 1 <= KyDefaultRetryLimit
                   THEN [req EXCEPT !.reissueRetry = @ + 1]
                   ELSE HookCatch(Captured([req EXCEPT !.reissueFailed = resp.status],
                                           HttpError(resp)),
                                  HttpError(resp))
    /\ UNCHANGED <<now, ticks, managerVars, callers, historyVars, options, call, client>>

\* An error of the transport, without a response: ky's TimeoutError when the
\* timeout of http.ts:39 elapses, or the TypeError fetch() rejects with when
\* the network fails.
TransportErrors == {"TimeoutError", "TypeError"}
TransportError(kind) ==
    [http |-> FALSE, status |-> 0, kind |-> kind,
     message |-> IF kind = "TimeoutError" THEN "Request timed out" ELSE "fetch failed",
     json |-> FALSE]

\* http.ts:39-45 and 65-68: an attempt, or the hook's ky(request), ends
\* without a response. The error of an attempt goes to ky's retry loop; that
\* of the reissue goes to the retry loop of the bare ky call and from there
\* to the hook's catch.
HttpFails(kind) ==
    /\ req.pc \in {"sent", "reissued"}
    /\ req' = IF req.pc = "sent"
              THEN AfterThrow(NoResponse(req), TransportError(kind))
              ELSE IF /\ kind # "TimeoutError"
                      /\ req.method \in KyDefaultRetryMethods
                      /\ req.reissueRetry + 1 <= KyDefaultRetryLimit
                   THEN [req EXCEPT !.reissueRetry = @ + 1]
                   ELSE HookCatch(NoResponse(req), TransportError(kind))
    /\ UNCHANGED <<now, ticks, managerVars, callers, historyVars, options, call, client>>

\* ky's retry loop after the backoff delay: the attempt runs again.
HttpRetry ==
    /\ req.pc = "backoff"
    /\ BeginAttempt(req)
    /\ UNCHANGED <<now, ticks, callers, historyVars, options, call, client>>

\* A client constructed with any retries option, its manager fresh.
InitHttp ==
    /\ InitManager
    /\ options \in [retries : {<<>>} \cup {<<n>> : n \in 0..MaxRetries},
                    baseUrl : {<<>>}]
    /\ call = NoCall
    /\ client = NoClient

NextHttp ==
    \/ \E m \in Methods : HttpRequest(m)
    \/ \E resp \in Responses : HttpResponds(resp)
    \/ \E resp \in Responses : ReissueResponds(resp)
    \/ HttpRetry
    \/ \E kind \in TransportErrors : HttpFails(kind)
    \/ FetchSucceeds
    \/ FetchFailsWith

HttpSpec == InitHttp /\ [][NextHttp]_vars

\* ------------------------------------------------------------ TaboolaClient

\* Faulty variant of Falsy: only a missing value is rejected.
FalsyMissingOnly(v) == v.type \in {"undefined", "null"}

\* client.ts:128,131  (!config.clientId, !config.clientSecret)
Falsy(v) ==
    \/ v.type \in {"undefined", "null"}
    \/ v.type = "string" /\ v.str = ""
    \/ v.type = "number" /\ v.num = 0

\* The TaboolaConfig objects a client is constructed from: credentials that
\* are missing, empty or given, with any retries option, and with or without
\* a baseUrl override. got is what the baseUrl getter returned ("" = not read).
Configs ==
    [pc : {"config"}, via : {"none"},
     clientId : {Undefined, Str(""), Str("id")},
     clientSecret : {Undefined, Str(""), Str("secret")},
     retries : {<<>>} \cup {<<n>> : n \in 0..MaxRetries},
     baseUrl : {<<>>, <<StagingBaseUrl>>},
     error : {""}, authManager : {FALSE}, httpClient : {FALSE}, got : {""}]

\* Application code holds a TaboolaConfig; nothing is constructed yet.
InitClient ==
    /\ InitManager
    /\ options = [retries |-> <<>>, baseUrl |-> <<>>]
    /\ call = NoCall
    /\ client \in Configs

\* client.ts:127-158, reached by `new TaboolaClient(config)` or through
\* createClient(config) (client.ts:203-205): the two checks throw before the
\* OAuthManager and the HttpClient are constructed; otherwise both are
\* constructed, the HttpClient with config.retries and with
\* config.baseUrl ?? DEFAULT_BASE_URL.
NewTaboolaClient(via) ==
    /\ client.pc = "config"
    /\ IF Falsy(client.clientId)
       THEN /\ client' = [client EXCEPT !.pc = "threw", !.via = via,
                                        !.error = "clientId is required"]
            /\ UNCHANGED options
       ELSE IF Falsy(client.clientSecret)
       THEN /\ client' = [client EXCEPT !.pc = "threw", !.via = via,
                                        !.error = "clientSecret is required"]
            /\ UNCHANGED options
       ELSE /\ client' = [client EXCEPT !.pc = "constructed", !.via = via,
                                        !.authManager = TRUE, !.httpClient = TRUE]
            /\ options' = [retries |-> client.retries,
                            baseUrl |-> <<IF client.baseUrl = <<>> THEN DEFAULT_BASE_URL
                                          ELSE client.baseUrl[1]>>]
    /\ UNCHANGED <<now, ticks, managerVars, callers, historyVars, req, call>>

\* client.ts:163-165  (get baseUrl(): return DEFAULT_BASE_URL)
TaboolaClient_baseUrl(c) == DEFAULT_BASE_URL

\* Application code reads client.baseUrl.
ReadBaseUrl ==
    /\ client.pc = "constructed"
    /\ client.got = ""
    /\ client' = [client EXCEPT !.got = TaboolaClient_baseUrl(client)]
    /\ UNCHANGED <<now, ticks, managerVars, callers, historyVars, options, req, call>>

\* An API module of a constructed client calls its HttpClient.
ClientRequest(m) ==
    /\ client.httpClient
    /\ HttpRequest(m)

NextClient ==
    \/ \E via \in {"new", "createClient"} : NewTaboolaClient(via)
    \/ ReadBaseUrl
    \/ \E m \in Methods : ClientRequest(m)
    \/ \E resp \in Responses : HttpResponds(resp)
    \/ \E resp \in Responses : ReissueResponds(resp)
    \/ HttpRetry
    \/ \E kind \in TransportErrors : HttpFails(kind)
    \/ FetchSucceeds
    \/ FetchFails

ClientSpec == InitClient /\ [][NextClient]_vars

\* ------------------------------------------------------------------ claims

\* C1 (as stated): once a getAccessToken() call has started a fetch, every
\* further call issued before that fetch settles, with no clearToken() in
\* between, joins it: exactly one fetch is started in that window.
C1_SingleFlight ==
    flight.fetch # 0 => flight.started = 1

\* C2 (as stated): at most one token fetch is outstanding in every reachable
\* state, clearToken() calls included.
C2_AtMostOneOutstanding ==
    Cardinality(Pending) <= 1

\* C2 (amended): at most one token fetch is outstanding as long as
\* clearToken() has never been called while a fetch was outstanding.
C2_AtMostOneUnlessOrphaned ==
    ~orphaned => Cardinality(Pending) <= 1

\* C2 witness: every caller waits on the one outstanding fetch.
C2_Witness ==
    /\ ~orphaned
    /\ Cardinality(Pending) = 1
    /\ \A p \in Callers : callers[p].pc = "waiting" /\ callers[p].waitOn \in Pending
    /\ \E p \in Callers : callers[p].how = "join"

\* C3 (as stated): the first getAccessToken() call after a clearToken()
\* never returns a token produced by a fetch started before that clearToken().
C3_NoReuseAfterClear ==
    \A p \in Callers :
        (clearMark.next = p /\ callers[p].pc = "done" /\ callers[p].ok)
            => callers[p].value > clearMark.mark

\* C4: a getAccessToken() call that finds a cached token fetched at t with
\* expires_in = E is served from the cache, starting no fetch, exactly when
\* now < t + E*1000 - 300000; otherwise it waits on a pending fetch.
C4_BufferBoundary ==
    [][\A p \in ClockCallers :
          (GetAccessToken(p, FALSE) /\ storedToken.accessToken # 0) =>
             LET fresh == now < storedToken.fetchedAt
                                  + storedToken.expiresIn * 1000 - 300000
             IN /\ fresh => /\ callers'[p].pc = "done"
                            /\ callers'[p].how = "cache"
                            /\ callers'[p].value = storedToken.accessToken
                            /\ fetches' = fetches
                /\ ~fresh => /\ callers'[p].pc = "waiting"
                             /\ callers'[p].how \in {"join", "start"}
                             /\ fetches'[callers'[p].waitOn] = "pending"]_vars

\* C4 witness: a token with expires_in = 3600 was served from the cache
\* 3000 s after it was fetched.
C4_Witness ==
    \E p \in ClockCallers :
        /\ callers[p].pc = "done" /\ callers[p].how = "cache"
        /\ storedToken.expiresIn = 3600
        /\ callers[p].value = storedToken.accessToken
        /\ callers[p].at = storedToken.fetchedAt + 3000 * 1000

C6_MarkerClearedOnSettle ==
    /\ tokenPromise # 0 => fetches[tokenPromise] = "pending"
    /\ \A p \in Callers :
          callers[p].pc = "waiting" => fetches[callers[p].waitOn] = "pending"

\* C6 witness: with no clearToken() racing a fetch, a fetch failed and a
\* later call started the fetch the marker now holds.
C6_Witness ==
    /\ ~orphaned
    /\ \E f, g \in 1..Len(fetches) :
          /\ f < g
          /\ fetches[f] = "failed"
          /\ fetches[g] = "pending"
          /\ tokenPromise = g
          /\ \E p \in Callers : callers[p].how = "start" /\ callers[p].waitOn = g

\* C7: a refreshToken() call leaves the cache empty and waits on a pending
\* fetch, never completing from the cache; its result is not the token it dropped.
C7_RefreshDiscardsCache ==
    /\ [][\A p \in Callers :
            RefreshToken(p, FALSE) =>
                /\ storedToken' = NoToken
                /\ callers'[p].pc = "waiting"
                /\ fetches'[callers'[p].waitOn] = "pending"]_vars
    /\ [](\A p \in Callers :
            (lastRefresh.who = p /\ callers[p].pc = "done" /\ callers[p].ok)
                => callers[p].value # lastRefresh.dropped)

\* C7 witness: a refreshToken() that dropped a valid token completed with
\* another one.
C7_Witness ==
    \E p \in Callers :
        /\ lastRefresh.who = p /\ lastRefresh.dropped # 0
        /\ callers[p].op = "refresh" /\ callers[p].pc = "done" /\ callers[p].ok
        /\ callers[p].how \in {"join", "start"}
        /\ callers[p].value # lastRefresh.dropped

\* C8 (as stated): within one request() call a 401 response leads to exactly
\* one forced refresh and exactly one reissue, never more, and a reissue
\* answered 401 ends the call with a TaboolaAuthError.
C8_OneRefreshOneReissue ==
    /\ req.refreshes <= 1
    /\ req.reissues <= 1
    /\ (req.pc = "done" /\ req.reissueFailed = 401)
          => req.result.kind = "TaboolaAuthError"

\* C9 (as stated): once the forced refresh after a 401 has failed, the
\* request is not sent again and the call ends with the TaboolaAuthError
\* "Token refresh failed".
C9_RefreshFailureSurfaced ==
    req.refreshFailed =>
        /\ ~req.sentAfterRefreshFail
        /\ req.pc = "done" =>
              /\ req.result.kind = "TaboolaAuthError"
              /\ req.result.message = "Token refresh failed"

\* C10 (as stated): a call that ends on a failed reissue (refresh succeeded,
\* reissue answered non-2xx status s) surfaces the error the status mapping
\* gives for s, and "Token refresh failed" is surfaced only when a refresh
\* itself failed.
C10_ReissueFailureTranslated ==
    /\ (req.pc = "done" /\ req.reissueFailed # 0) =>
          /\ req.result.kind = ErrorKindOf(req.reissueFailed)
          /\ req.result.statusCode = req.reissueFailed
    /\ (req.pc = "done" /\ req.result.message = "Token refresh failed")
          => req.refreshFailed

\* The retries a client is configured with: R, 3 when the option is left out.
ConfiguredRetries ==
    IF options.retries = <<>> THEN 3 ELSE options.retries[1]

\* C11: while every attempt of a request() call has been answered with a
\* status in {408, 429, 500, 502, 503, 504}, k <= R times in all, the call has
\* surfaced no error, and a 2xx response with a readable body to the next
\* attempt ends it with that response's result.
C11_TransientRetrySuccess ==
    /\ [][\A resp \in Responses :
            (/\ HttpResponds(resp)
             /\ resp.status \in 200..299
             /\ resp.json \/ ~IncludesJson(resp.contentType)
             /\ req.clean /\ req.transient <= ConfiguredRetries) =>
                /\ req'.pc = "done"
                /\ req'.result.kind = "ok"
                /\ req'.result.statusCode = resp.status]_vars
    /\ []((req.clean /\ req.transient <= ConfiguredRetries /\ req.pc = "done")
            => req.result.kind \in {"ok", "SyntaxError"})

\* C11 witness: with the default retries, 503 three times and then 200
\* resolved with the 200 result on the fourth attempt.
C11_Witness ==
    /\ options.retries = <<>>
    /\ req.pc = "done" /\ req.clean
    /\ req.transient = 3 /\ req.same = -1 /\ req.sent = 4
    /\ req.result.kind = "ok" /\ req.result.statusCode = 200

\* C12: a request() call whose every attempt is answered with the same
\* retryable status s makes at most R + 1 attempts, is over once the
\* (R + 1)-th answer is in, and rejects with the error translated from s, of
\* status s: TaboolaServerError for 503, TaboolaRateLimitError for 429.
C12_RetryExhaustion ==
    req.same \in {408, 429, 500, 502, 503, 504} =>
        /\ req.sent <= ConfiguredRetries + 1
        /\ (req.sent = ConfiguredRetries + 1 /\ req.pc # "sent") => req.pc = "done"
        /\ req.pc = "done" =>
              /\ req.sent = ConfiguredRetries + 1
              /\ req.result.statusCode = req.same
              /\ req.same = 503 => req.result.kind = "TaboolaServerError"
              /\ req.same = 429 => req.result.kind = "TaboolaRateLimitError"

\* C12 witness: with the default retries, a persistent 503 ended the call
\* after four attempts with a TaboolaServerError of status 503.
C12_Witness ==
    /\ options.retries = <<>>
    /\ req.pc = "done" /\ req.same = 503 /\ req.sent = 4
    /\ req.result.kind = "TaboolaServerError" /\ req.result.statusCode = 503

\* C13 (as stated): once the forced refresh of a request() call has started,
\* no further attempt of the retry layer is dispatched for that call.
C13_PhaseOrdering ==
    req.refreshes > 0 => ~req.sentAfterRecovery

\* C14: parseApiError returns one error for every status and body; its class
\* is fixed by the status alone (400 Validation, 401 Auth, 403 Forbidden,
\* 404 NotFound, 429 RateLimit, 500/502/503 Server) and its statusCode is the
\* status passed in, 5xx codes included.
C14_StatusMapping ==
    call.pc = "returned" =>
        /\ call.result.kind \in {"TaboolaError", "TaboolaAuthError",
                                 "TaboolaValidationError", "TaboolaNotFoundError",
                                 "TaboolaRateLimitError", "TaboolaForbiddenError",
                                 "TaboolaServerError"}
        /\ call.result.statusCode = call.statusCode
        /\ call.statusCode = 400 => call.result.kind = "TaboolaValidationError"
        /\ call.statusCode = 401 => call.result.kind = "TaboolaAuthError"
        /\ call.statusCode = 403 => call.result.kind = "TaboolaForbiddenError"
        /\ call.statusCode = 404 => call.result.kind = "TaboolaNotFoundError"
        /\ call.statusCode = 429 => call.result.kind = "TaboolaRateLimitError"
        /\ call.statusCode \in {500, 502, 503} => call.result.kind = "TaboolaServerError"

\* C14 witness: a 502 with a raw-text body came back as a TaboolaServerError
\* of status 502.
C14_Witness ==
    /\ call.pc = "returned"
    /\ call.statusCode = 502
    /\ call.response.type = "string"
    /\ call.result.kind = "TaboolaServerError"
    /\ call.result.statusCode = 502

\* C15 (as stated): parseApiError returns the Server class exactly for the
\* statuses 500..599, and the plain TaboolaError with the status preserved for
\* every status outside {400, 401, 403, 404, 429} and outside 500..599.
C15_ServerRangeAndGeneric ==
    call.pc = "returned" =>
        /\ (call.result.kind = "TaboolaServerError") = (call.statusCode \in 500..599)
        /\ call.statusCode \notin ({400, 401, 403, 404, 429} \cup (500..599)) =>
              /\ call.result.kind = "TaboolaError"
              /\ call.result.statusCode = call.statusCode

\* C16: for every status, the message of the error parseApiError returns is
\* body.message if that is a string, else body.error if that is a string, else
\* body.error_description if that is a string, else "Unknown error"; a body
\* that is {}, null or undefined gives "Unknown error".
C16_MessagePrecedence ==
    call.pc = "returned" =>
        LET b == call.response
            m == call.result.message
        IN /\ b.type = "object" =>
                 /\ b.message.type = "string" => m = b.message.str
                 /\ (b.message.type # "string" /\ b.error.type = "string")
                       => m = b.error.str
                 /\ (/\ b.message.type # "string" /\ b.error.type # "string"
                     /\ b.error_description.type = "string")
                       => m = b.error_description.str
                 /\ (/\ b.message.type # "string" /\ b.error.type # "string"
                     /\ b.error_description.type # "string")
                       => m = "Unknown error"
           /\ b.type \in {"null", "undefined"} => m = "Unknown error"

\* C16 witness: body.message was a number and body.error a string, and the
\* error of a 404 carries body.error, not body.error_description.
C16_Witness ==
    /\ call.pc = "returned"
    /\ call.statusCode = 404
    /\ call.response.type = "object"
    /\ call.response.message.type = "number"
    /\ call.response.error = Str("B")
    /\ call.response.error_description = Str("C")
    /\ call.result.message = "B"

\* C17: for status 400 the error's fieldErrors is the body's errors object
\* itself when the body has one, and undefined when the body has no errors
\* property.
C17_FieldErrors ==
    (call.pc = "returned" /\ call.statusCode = 400) =>
        /\ (call.response.type = "object" /\ call.response.errors.type = "object")
              => call.result.fieldErrors = call.response.errors
        /\ call.response.errors.type = "undefined"
              => call.result.fieldErrors.type = "undefined"

\* C17 witness: a 400 whose body has an errors object and whose error
\* property is a string carries that errors object as fieldErrors.
C17_Witness ==
    /\ call.pc = "returned"
    /\ call.statusCode = 400
    /\ call.response.errors = Obj("fields")
    /\ call.response.error = Str("B")
    /\ call.result.kind = "TaboolaValidationError"
    /\ call.result.fieldErrors = Obj("fields")

\* C18: for status 429 the error's retryAfter is the body's retry_after when
\* that is a number, and undefined when it is absent or not a number.
C18_RetryAfter ==
    (call.pc = "returned" /\ call.statusCode = 429) =>
        /\ (call.response.type = "object" /\ call.response.retry_after.type = "number")
              => call.result.retryAfter = call.response.retry_after
        /\ call.response.retry_after.type # "number"
              => call.result.retryAfter.type = "undefined"

\* C18 witness: a 429 with retry_after: 30 carries retryAfter = 30.
C18_Witness ==
    /\ call.pc = "returned"
    /\ call.statusCode = 429
    /\ call.response.retry_after = Num(30)
    /\ call.result.kind = "TaboolaRateLimitError"
    /\ call.result.retryAfter = Num(30)

\* C19: a TaboolaClient constructor call (direct or through createClient)
\* with an empty clientId, or with an empty clientSecret, throws "clientId is
\* required" / "clientSecret is required" with no OAuthManager and no
\* HttpClient created, and no token fetch or request is ever made.
C19_ConstructorValidation ==
    /\ (client.pc # "config" /\ client.clientId = Str("")) =>
          /\ client.pc = "threw"
          /\ client.error = "clientId is required"
    /\ (client.pc # "config" /\ client.clientId = Str("id")
                             /\ client.clientSecret = Str("")) =>
          /\ client.pc = "threw"
          /\ client.error = "clientSecret is required"
    /\ client.pc \in {"config", "threw"} =>
          /\ ~client.authManager /\ ~client.httpClient
          /\ fetches = <<>>
          /\ req = IdleReq

\* C19 witness: createClient with an empty clientId and a good clientSecret
\* has thrown "clientId is required".
C19_Witness ==
    /\ client.pc = "threw"
    /\ client.via = "createClient"
    /\ client.clientId = Str("") /\ client.clientSecret = Str("secret")
    /\ client.error = "clientId is required"
    /\ fetches = <<>> /\ req.sent = 0

\* C20: a request() call that ends on a 2xx response whose content-type
\* header is absent or does not include "application/json" resolves with
\* undefined, whether or not the body would parse as JSON.
C20_NonJsonResolvesEmpty ==
    (/\ req.pc = "done"
     /\ req.final.status \in 200..299
     /\ ~(/\ req.final.contentType.present
          /\ Includes(req.final.contentType.value, <<"application/json">>))) =>
        /\ req.result.kind = "ok"
        /\ req.result.value = "undefined"
        /\ req.result.statusCode = req.final.status

\* C20 witness: a 204 with no content-type header and an empty body, which
\* is not JSON, resolved with undefined.
C20_Witness ==
    /\ req.pc = "done"
    /\ req.final.status = 204
    /\ ~req.final.contentType.present
    /\ ~req.final.json
    /\ req.result.kind = "ok"
    /\ req.result.value = "undefined"


\* C21, first half: every attempt dispatched to the resource API, first send or
\* reissue, carries as its Bearer credential a token that a token fetch of the
\* manager resolved with and that getAccessToken() or refreshToken() returned
\* to the hook.
C21_BearerIsFetchedToken ==
    req.pc \in {"sent", "reissued"} =>
        /\ req.bearer \in 1..Len(fetches)
        /\ fetches[req.bearer] = "ok"

\* C21, second half: once getAccessToken() has failed in the beforeRequest hook,
\* no attempt of that request() call is dispatched any more and the call
\* rejects with the error getAccessToken() failed with.
C21_TokenFailureEndsRequest ==
    req.tokenError.kind # "none" =>
        /\ ~req.sentAfterTokenFail
        /\ req.pc = "done" => req.result = Surfaced(req.tokenError)


\* C22 at the catch block of request(): when the ky call rejects with an
\* HTTPError, request() rejects with the error parseApiError returns for the
\* status, the body read and the URL of that response; when it rejects with
\* anything else, request() rejects with that same error and builds no
\* TaboolaError.
C22_RequestCatchTranslates ==
    (req.pc = "done" /\ req.rejected.kind # "none") =>
        IF req.rejected.http
        THEN /\ req.error = parseApiError(req.rejected.status,
                                          ResponseBody(req.rejected), RequestUrl(options))
             /\ req.result.kind = req.error.kind
             /\ req.result.statusCode = req.error.statusCode
             /\ req.result.message = req.error.message
        ELSE /\ req.error = NoError
             /\ req.result.kind = req.rejected.kind
             /\ req.result.statusCode = req.rejected.status
             /\ req.result.message = req.rejected.message

\* C22 (as stated): a request() call whose last attempt, or the reissue made
\* for it, ended in an HTTPError rejects with the error parseApiError returns
\* for that response; a call that ended in an error without a response rejects
\* with that error unchanged.
C22_TranslationBoundary ==
    /\ C22_RequestCatchTranslates
    /\ (req.pc = "done" /\ req.result.kind # "ok" /\ req.captured.kind # "none") =>
           /\ req.error = parseApiError(req.captured.status,
                                        ResponseBody(req.captured), RequestUrl(options))
           /\ req.result.message = req.error.message


\* C23, first half: every getAccessToken() or refreshToken() call that fails,
\* whatever made the token fetch fail, rejects with a TaboolaAuthError.
C23_FailureIsAuthError ==
    \A p \in Callers :
        (callers[p].pc = "done" /\ ~callers[p].ok)
            => callers[p].error.kind = "TaboolaAuthError"

\* C23, second half: the step in which a token fetch fails leaves the cached
\* token as it is.
C23_FailedFetchKeepsCache ==
    [][(\E f \in 1..Len(fetches) : fetches[f] = "pending" /\ fetches'[f] = "failed")
          => storedToken' = storedToken]_vars


\* C24 (as stated): the baseUrl getter of a constructed client returns the
\* base URL its HttpClient sends requests to: the default root when no baseUrl
\* is configured, the configured override otherwise.
C24_BaseUrlGetter ==
    client.got # "" =>
        /\ client.got = PrefixUrl(options)
        /\ client.baseUrl = <<>> => client.got = DEFAULT_BASE_URL
        /\ client.baseUrl # <<>> => client.got = client.baseUrl[1]
        /\ req.url # "" => req.url = RequestUrl([options EXCEPT
                                                  !.baseUrl = <<client.got>>])


\* C25 (as stated): a timed-out attempt is retried while fewer than R retries
\* have been used, so a request() call rejects with the TimeoutError only once
\* the retry budget is exhausted.
C25_TimeoutRetried ==
    (req.pc = "done" /\ req.rejected.kind = "TimeoutError")
        => req.retryCount > ConfiguredRetries


\* C26: an error constructed with no arguments has the fixed message and
\* status of its class; a TaboolaServerError given a status code keeps it; and
\* the error parseApiError returns carries the message it extracted from the
\* body, never the default of the class.
C26_ConstructorDefaults ==
    /\ (call.pc = "constructed" /\ call.message.type = "undefined"
           /\ call.statusCode = 0) =>
          \/ call.result.kind = "TaboolaAuthError"
                /\ call.result.message = "Authentication failed"
                /\ call.result.statusCode = 401
          \/ call.result.kind = "TaboolaValidationError"
                /\ call.result.message = "Validation failed"
                /\ call.result.statusCode = 400
          \/ call.result.kind = "TaboolaNotFoundError"
                /\ call.result.message = "Resource not found"
                /\ call.result.statusCode = 404
          \/ call.result.kind = "TaboolaRateLimitError"
                /\ call.result.message = "Rate limit exceeded"
                /\ call.result.statusCode = 429
          \/ call.result.kind = "TaboolaForbiddenError"
                /\ call.result.message = "Access forbidden"
                /\ call.result.statusCode = 403
          \/ call.result.kind = "TaboolaServerError"
                /\ call.result.message = "Server error"
                /\ call.result.statusCode = 500
    /\ (call.pc = "constructed" /\ call.class = "TaboolaServerError"
           /\ call.statusCode # 0) =>
          call.result.statusCode = call.statusCode
    /\ (call.pc = "constructed" /\ call.message.type = "string") =>
          call.result.message = call.message.str
    /\ call.pc = "returned" =>
          /\ call.result.message = extractErrorMessage(call.response)
          /\ call.result.message \notin {DefaultMessage(c) : c \in ErrorClasses}

\* C26 witness: a TaboolaServerError constructed with status 503 and no
\* message.
C26_Witness ==
    /\ call.pc = "constructed"
    /\ call.class = "TaboolaServerError"
    /\ call.message.type = "undefined"
    /\ call.statusCode = 503
    /\ call.result.message = "Server error"
    /\ call.result.statusCode = 503


\* C27 (as stated): a non-empty cached token is the token of the most
\* recently started fetch among those that succeeded; a fetch started earlier
\* never replaces the token of a fetch started after it. (Tokens are numbered
\* by the fetch that produced them, fetches in the order they were started.)
C27_CacheFreshness ==
    storedToken.accessToken # 0 =>
        \A g \in 1..Len(fetches) :
            fetches[g] = "ok" => g <= storedToken.accessToken


\* C28: provided every started token fetch settles, every getAccessToken()
\* and refreshToken() call that waits for a fetch is settled in the end, with
\* a token or with the error its fetch failed with, whatever other calls and
\* clearToken() calls are interleaved.
C28_CallsSettle ==
    \A p \in Callers :
        (callers[p].pc = "waiting")
            ~> (callers[p].pc = "done" /\ (callers[p].ok \/ callers[p].error.kind # "none"))

\* C28 witness: a caller that joined the only fetch started so far, whose
\* marker a clearToken() then dropped, has been settled with the failure of
\* that fetch.
C28_Witness ==
    \E p \in Callers :
        /\ callers[p].pc = "done"
        /\ callers[p].how = "join"
        /\ ~callers[p].ok
        /\ orphaned
        /\ Len(fetches) = 1


\* The step in which the fetch of p's refreshToken() fails, that call having
\* discarded a token that was still valid.
RefreshOfValidTokenFails(p) ==
    /\ callers[p].pc = "waiting"
    /\ callers[p].op = "refresh"
    /\ lastRefresh.who = p
    /\ callers'[p].pc = "done"
    /\ ~callers'[p].ok

\* C29 (as stated): when the fetch of a refreshToken() that discarded a valid
\* token fails, the cache is left empty: the next getAccessToken() starts a
\* new fetch and cannot return the old token.
C29_FailedRefreshEmptiesCache ==
    [][\A p \in Callers :
          RefreshOfValidTokenFails(p) =>
              /\ storedToken' = NoToken
              /\ GetBranch(storedToken', tokenPromise', now') = "start"]_vars

\* C29 (amended): when the fetch of a refreshToken() that discarded a valid
\* token fails, the cache does not hold the discarded token; and unless a
\* clearToken() was called while a fetch was pending, the cache is empty and
\* the next getAccessToken() starts a new fetch.
C29_FailedRefreshDropsOldToken ==
    [][\A p \in Callers :
          RefreshOfValidTokenFails(p) =>
              /\ storedToken'.accessToken # lastRefresh.dropped
              /\ ~orphaned =>
                    /\ storedToken' = NoToken
                    /\ GetBranch(storedToken', tokenPromise', now') = "start"]_vars


\* C29 witness: a refreshToken() that discarded a valid token has failed, no
\* clearToken() having interfered, and the cache is empty.
C29_Witness ==
    \E p \in Callers :
        /\ callers[p].pc = "done"
        /\ callers[p].op = "refresh"
        /\ ~callers[p].ok
        /\ lastRefresh.who = p
        /\ lastRefresh.dropped # 0
        /\ ~orphaned
        /\ storedToken = NoToken


\* C30 (as stated), token manager: whatever made the token fetch fail (the
\* endpoint answering 403 or 500, or being unreachable), the error the failed
\* getAccessToken() or refreshToken() call rejects with carries statusCode 401.
C30_TokenFailureCarries401 ==
    \A p \in Callers :
        (callers[p].pc = "done" /\ ~callers[p].ok) => callers[p].error.status = 401

\* C30, 401-recovery hook: a request() call that ends in the hook's
\* "Token refresh failed", after a failed refresh or a failed reissue, rejects
\* with a TaboolaAuthError of statusCode 401, whatever the reissue's status.
C30_HookFailureCarries401 ==
    (req.pc = "done" /\ req.rejected = TokenRefreshFailed) =>
        /\ req.result.kind = "TaboolaAuthError"
        /\ req.result.statusCode = 401

====
